---- MODULE Spec2Model ----
(***************************************************************************)
(* Model of src/main.py: class Graph (adjacency list, adjacency matrix and *)
(* edge list kept in step by add_edge) and its algorithms: edge_exists,    *)
(* bfs, dfs / dfs_util, kahn_topological_sort, tarjan_topological_sort.    *)
(* The two recursive routines (dfs_util and the nested visit) are modelled *)
(* call frame by call frame; the loops of bfs and Kahn's sort are          *)
(* operators that compute what the loops compute.                          *)
(***************************************************************************)
EXTENDS Integers, Sequences, FiniteSets, TLC

VARIABLES nodes, directed, adj_list, adj_matrix, edge_list,
          pc, ret, visited, order, stack, top

graph == <<nodes, directed, adj_list, adj_matrix, edge_list>>
locals == <<visited, order, stack, top>>
vars == <<nodes, directed, adj_list, adj_matrix, edge_list,
          pc, ret, visited, order, stack, top>>

\* Largest node count a graph is constructed with.
MaxNodes == 3
\* add_edge inserts only while the edge list is shorter than this.
MaxEdges == 3

\* Node indices of the graph.
Nodes == 0 .. (nodes - 1)
\* Integer arguments handed to the operations: every index, and one
\* out-of-range value on each side.
Args == (0 - 1) .. nodes

\* The value of a call that returns nothing.
None == <<>>

Result(op, args, kind, val) ==
  [op |-> op, args |-> args, kind |-> kind, val |-> val]

\* Graph.__init__: nodes > 0, empty lists, zero matrix, empty edge list.
Init ==
  /\ nodes \in 1 .. MaxNodes
  /\ directed \in BOOLEAN
  /\ adj_list = [u \in Nodes |-> <<>>]
  /\ adj_matrix = [u \in Nodes |-> [v \in Nodes |-> 0]]
  /\ edge_list = <<>>
  /\ pc = "idle"
  /\ ret = Result("init", <<>>, "return", None)
  /\ visited = <<>>
  /\ order = <<>>
  /\ stack = <<>>
  /\ top = 0

OutOfRange(u, v) == u < 0 \/ u >= nodes \/ v < 0 \/ v >= nodes

\* Python list indexing: a negative index counts from the end.
PyIndex(i, n) == IF i < 0 THEN i + n ELSE i

----------------------------------------------------------------------------
\* Graph.add_edge

add_edge_no_dup_check(u, v) ==
  IF OutOfRange(u, v) \/ u = v
  THEN /\ ret' = Result("add_edge", <<u, v>>, "ValueError", None)
       /\ UNCHANGED <<adj_list, adj_matrix, edge_list>>
  ELSE /\ ret' = Result("add_edge", <<u, v>>, "return", None)
       /\ IF ~directed /\ u # v
          THEN /\ adj_list' = [adj_list EXCEPT ![u] = Append(@, v),
                                               ![v] = Append(@, u)]
               /\ adj_matrix' = [adj_matrix EXCEPT ![u][v] = 1, ![v][u] = 1]
               /\ edge_list' = edge_list \o <<(<<u, v>>), (<<v, u>>)>>
          ELSE /\ adj_list' = [adj_list EXCEPT ![u] = Append(@, v)]
               /\ adj_matrix' = [adj_matrix EXCEPT ![u][v] = 1]
               /\ edge_list' = Append(edge_list, <<u, v>>)

add_edge_no_self_loop_check(u, v) ==
  IF OutOfRange(u, v)
  THEN /\ ret' = Result("add_edge", <<u, v>>, "ValueError", None)
       /\ UNCHANGED <<adj_list, adj_matrix, edge_list>>
  ELSE /\ ret' = Result("add_edge", <<u, v>>, "return", None)
       /\ IF adj_matrix[u][v] = 1
          THEN UNCHANGED <<adj_list, adj_matrix, edge_list>>
          ELSE IF ~directed /\ u # v
          THEN /\ adj_list' = [adj_list EXCEPT ![u] = Append(@, v),
                                               ![v] = Append(@, u)]
               /\ adj_matrix' = [adj_matrix EXCEPT ![u][v] = 1, ![v][u] = 1]
               /\ edge_list' = edge_list \o <<(<<u, v>>), (<<v, u>>)>>
          ELSE /\ adj_list' = [adj_list EXCEPT ![u] = Append(@, v)]
               /\ adj_matrix' = [adj_matrix EXCEPT ![u][v] = 1]
               /\ edge_list' = Append(edge_list, <<u, v>>)

add_edge_no_reverse_matrix(u, v) ==
  IF OutOfRange(u, v) \/ u = v
  THEN /\ ret' = Result("add_edge", <<u, v>>, "ValueError", None)
       /\ UNCHANGED <<adj_list, adj_matrix, edge_list>>
  ELSE /\ ret' = Result("add_edge", <<u, v>>, "return", None)
       /\ IF adj_matrix[u][v] = 1
          THEN UNCHANGED <<adj_list, adj_matrix, edge_list>>
          ELSE IF ~directed /\ u # v
          THEN /\ adj_list' = [adj_list EXCEPT ![u] = Append(@, v),
                                               ![v] = Append(@, u)]
               /\ adj_matrix' = [adj_matrix EXCEPT ![u][v] = 1]
               /\ edge_list' = edge_list \o <<(<<u, v>>), (<<v, u>>)>>
          ELSE /\ adj_list' = [adj_list EXCEPT ![u] = Append(@, v)]
               /\ adj_matrix' = [adj_matrix EXCEPT ![u][v] = 1]
               /\ edge_list' = Append(edge_list, <<u, v>>)

add_edge_one_direction(u, v) ==
  IF OutOfRange(u, v) \/ u = v
  THEN /\ ret' = Result("add_edge", <<u, v>>, "ValueError", None)
       /\ UNCHANGED <<adj_list, adj_matrix, edge_list>>
  ELSE /\ ret' = Result("add_edge", <<u, v>>, "return", None)
       /\ IF adj_matrix[u][v] = 1
          THEN UNCHANGED <<adj_list, adj_matrix, edge_list>>
          ELSE /\ adj_list' = [adj_list EXCEPT ![u] = Append(@, v)]
               /\ adj_matrix' = [adj_matrix EXCEPT ![u][v] = 1]
               /\ edge_list' = Append(edge_list, <<u, v>>)

\* The body of add_edge: the two raises, the early return on an edge the
\* matrix already holds, the three appends, and the mirrored appends of an
\* undirected graph.
add_edge(u, v) ==
  IF OutOfRange(u, v)
  THEN /\ ret' = Result("add_edge", <<u, v>>, "ValueError", None)
       /\ UNCHANGED <<adj_list, adj_matrix, edge_list>>
  ELSE IF u = v
  THEN /\ ret' = Result("add_edge", <<u, v>>, "ValueError", None)
       /\ UNCHANGED <<adj_list, adj_matrix, edge_list>>
  ELSE /\ ret' = Result("add_edge", <<u, v>>, "return", None)
       /\ IF adj_matrix[u][v] = 1
          THEN UNCHANGED <<adj_list, adj_matrix, edge_list>>
          ELSE IF ~directed /\ u # v
          THEN /\ adj_list' = [adj_list EXCEPT ![u] = Append(@, v),
                                               ![v] = Append(@, u)]
               /\ adj_matrix' = [adj_matrix EXCEPT ![u][v] = 1, ![v][u] = 1]
               /\ edge_list' = edge_list \o <<(<<u, v>>), (<<v, u>>)>>
          ELSE /\ adj_list' = [adj_list EXCEPT ![u] = Append(@, v)]
               /\ adj_matrix' = [adj_matrix EXCEPT ![u][v] = 1]
               /\ edge_list' = Append(edge_list, <<u, v>>)

AddEdge(u, v) ==
  /\ pc = "idle"
  /\ add_edge(u, v)
  /\ edge_list' # edge_list => Len(edge_list) < MaxEdges
  /\ UNCHANGED <<nodes, directed, pc, locals>>

----------------------------------------------------------------------------
\* Graph.edge_exists

edge_exists_no_lower_check(u, v) ==
  IF u >= nodes \/ v >= nodes
  THEN FALSE
  ELSE adj_matrix[PyIndex(u, nodes)][PyIndex(v, nodes)] = 1

edge_exists(u, v) ==
  IF u < 0 \/ u >= nodes \/ v < 0 \/ v >= nodes
  THEN FALSE
  ELSE adj_matrix[u][v] = 1

EdgeExists(u, v) ==
  /\ pc = "idle"
  /\ ret' = Result("edge_exists", <<u, v>>, "return", edge_exists(u, v))
  /\ UNCHANGED <<graph, pc, locals>>

----------------------------------------------------------------------------
\* Graph.bfs

RECURSIVE bfs_scan(_, _, _, _)
\* The for loop over adj_list[u]: an unvisited neighbour is marked and
\* enqueued, in adjacency-list order.
bfs_scan(nbrs, i, vis, queue) ==
  IF i > Len(nbrs)
  THEN [vis |-> vis, queue |-> queue]
  ELSE IF ~vis[nbrs[i]]
       THEN bfs_scan(nbrs, i + 1, [vis EXCEPT ![nbrs[i]] = TRUE],
                     Append(queue, nbrs[i]))
       ELSE bfs_scan(nbrs, i + 1, vis, queue)

RECURSIVE bfs_loop(_, _, _)
\* The while loop: popleft, append to the order, scan the neighbours.
bfs_loop(queue, vis, ord) ==
  IF queue = <<>>
  THEN ord
  ELSE LET u == Head(queue)
           s == bfs_scan(adj_list[u], 1, vis, Tail(queue))
       IN bfs_loop(s.queue, s.vis, Append(ord, u))

bfs_start_unmarked(start) ==
  bfs_loop(<<start>>, [n \in Nodes |-> FALSE], <<>>)

\* bfs past its range check: visited[start] = True, queue = deque([start]).
bfs(start) ==
  bfs_loop(<<start>>, [n \in Nodes |-> n = start], <<>>)

Bfs(start) ==
  /\ pc = "idle"
  /\ IF start < 0 \/ start >= nodes
     THEN ret' = Result("bfs", <<start>>, "ValueError", None)
     ELSE ret' = Result("bfs", <<start>>, "return", bfs(start))
  /\ UNCHANGED <<graph, pc, locals>>

----------------------------------------------------------------------------
\* Graph.dfs and Graph.dfs_util, one call frame per active dfs_util call.
\* A frame is [u, i]: the node of the call and the index in adj_list[u] of
\* the neighbour the for loop looks at next; i = 0 is a call whose body has
\* not begun.

Frame(u, i) == [u |-> u, i |-> i]
Depth == Len(stack)
TopFrame == stack[Len(stack)]
Pop(s) == SubSeq(s, 1, Len(s) - 1)
SetTop(s, f) == [s EXCEPT ![Len(s)] = f]

\* dfs up to its call of dfs_util(start, visited, order).
DfsStart(start) ==
  /\ pc = "idle"
  /\ IF start < 0 \/ start >= nodes
     THEN /\ ret' = Result("dfs", <<start>>, "ValueError", None)
          /\ UNCHANGED <<pc, locals>>
     ELSE /\ ret' = Result("dfs", <<start>>, "running", None)
          /\ pc' = "dfs"
          /\ visited' = [n \in Nodes |-> FALSE]
          /\ order' = <<>>
          /\ stack' = <<Frame(start, 0)>>
          /\ UNCHANGED top
  /\ UNCHANGED graph

\* dfs_util: visited[u] = True; order.append(u).
DfsEnter ==
  /\ pc = "dfs"
  /\ stack # <<>>
  /\ TopFrame.i = 0
  /\ visited' = [visited EXCEPT ![TopFrame.u] = TRUE]
  /\ order' = Append(order, TopFrame.u)
  /\ stack' = SetTop(stack, Frame(TopFrame.u, 1))
  /\ UNCHANGED <<graph, pc, ret, top>>

dfs_recurse_unchecked(v) == TRUE

\* dfs_util: the test that guards the recursive call.
dfs_recurse(v) == ~visited[v]

\* dfs_util: one iteration of the for loop.
DfsLoop ==
  /\ pc = "dfs"
  /\ stack # <<>>
  /\ TopFrame.i >= 1
  /\ TopFrame.i <= Len(adj_list[TopFrame.u])
  /\ LET v == adj_list[TopFrame.u][TopFrame.i]
         s == SetTop(stack, Frame(TopFrame.u, TopFrame.i + 1))
     IN stack' = IF dfs_recurse(v) THEN Append(s, Frame(v, 0)) ELSE s
  /\ UNCHANGED <<graph, pc, ret, visited, order, top>>

\* dfs_util returns; the return of the outermost call is the return of dfs.
DfsReturn ==
  /\ pc = "dfs"
  /\ stack # <<>>
  /\ TopFrame.i > Len(adj_list[TopFrame.u])
  /\ IF Len(stack) = 1
     THEN /\ ret' = Result("dfs", ret.args, "return", order)
          /\ pc' = "idle"
          /\ visited' = <<>>
          /\ order' = <<>>
          /\ stack' = <<>>
     ELSE /\ stack' = Pop(stack)
          /\ UNCHANGED <<pc, ret, visited, order>>
  /\ UNCHANGED <<graph, top>>

----------------------------------------------------------------------------
\* Graph.kahn_topological_sort

\* in_degree after the two nested loops: one count per occurrence of v in
\* an adjacency list.
in_degree_of(v) ==
  Cardinality({p \in {<<u, i>> : u \in Nodes, i \in 1 .. nodes * nodes} :
                 p[2] <= Len(adj_list[p[1]]) /\ adj_list[p[1]][p[2]] = v})

RECURSIVE zero_in_degree_from(_)
\* deque([u for u in range(nodes) if in_degree[u] == 0]), from index u on.
zero_in_degree_from(u) ==
  IF u >= nodes THEN <<>>
  ELSE IF in_degree_of(u) = 0 THEN <<u>> \o zero_in_degree_from(u + 1)
  ELSE zero_in_degree_from(u + 1)

RECURSIVE kahn_scan(_, _, _, _)
\* The for loop over adj_list[u]: decrement, enqueue on reaching zero.
kahn_scan(nbrs, i, deg, queue) ==
  IF i > Len(nbrs)
  THEN [deg |-> deg, queue |-> queue]
  ELSE LET d == [deg EXCEPT ![nbrs[i]] = @ - 1]
       IN kahn_scan(nbrs, i + 1, d,
                    IF d[nbrs[i]] = 0 THEN Append(queue, nbrs[i]) ELSE queue)

RECURSIVE kahn_loop(_, _, _)
kahn_loop(queue, deg, ord) ==
  IF queue = <<>>
  THEN ord
  ELSE LET u == Head(queue)
           s == kahn_scan(adj_list[u], 1, deg, Tail(queue))
       IN kahn_loop(s.queue, s.deg, Append(ord, u))

kahn_topo_order ==
  kahn_loop(zero_in_degree_from(0), [v \in Nodes |-> in_degree_of(v)], <<>>)

kahn_outcome_no_length_check ==
  IF ~directed THEN Result("kahn", <<>>, "not_applicable", None)
  ELSE Result("kahn", <<>>, "order", kahn_topo_order)

\* What kahn_topological_sort prints.
kahn_outcome ==
  IF ~directed THEN Result("kahn", <<>>, "not_applicable", None)
  ELSE IF Len(kahn_topo_order) # nodes
  THEN Result("kahn", <<>>, "cycle", None)
  ELSE Result("kahn", <<>>, "order", kahn_topo_order)

Kahn ==
  /\ pc = "idle"
  /\ ret' = kahn_outcome
  /\ UNCHANGED <<graph, pc, locals>>

----------------------------------------------------------------------------
\* Graph.tarjan_topological_sort, one call frame per active visit call.
\* top is the index the top-level for loop looks at next; order is
\* topo_order; pc = "raise" is the ValueError on its way to the except.

RECURSIVE Reverse(_)
Reverse(s) == IF s = <<>> THEN <<>> ELSE Append(Reverse(Tail(s)), Head(s))

TarjanStart ==
  /\ pc = "idle"
  /\ IF ~directed
     THEN /\ ret' = Result("tarjan", <<>>, "not_applicable", None)
          /\ UNCHANGED <<pc, locals>>
     ELSE /\ ret' = Result("tarjan", <<>>, "running", None)
          /\ pc' = "tarjan"
          /\ visited' = [n \in Nodes |-> 0]
          /\ order' = <<>>
          /\ stack' = <<>>
          /\ top' = 0
  /\ UNCHANGED graph

\* for u in range(nodes): if visited[u] == 0: visit(u)
TarjanTop ==
  /\ pc = "tarjan"
  /\ stack = <<>>
  /\ top < nodes
  /\ top' = top + 1
  /\ stack' = IF visited[top] = 0 THEN <<Frame(top, 0)>> ELSE <<>>
  /\ UNCHANGED <<graph, pc, ret, visited, order>>

TarjanFinish_no_reverse ==
  /\ pc = "tarjan"
  /\ stack = <<>>
  /\ top = nodes
  /\ ret' = Result("tarjan", <<>>, "order", order)
  /\ pc' = "idle"
  /\ visited' = <<>>
  /\ order' = <<>>
  /\ top' = 0
  /\ UNCHANGED <<graph, stack>>

\* topo_order.reverse(); print the order.
TarjanFinish ==
  /\ pc = "tarjan"
  /\ stack = <<>>
  /\ top = nodes
  /\ ret' = Result("tarjan", <<>>, "order", Reverse(order))
  /\ pc' = "idle"
  /\ visited' = <<>>
  /\ order' = <<>>
  /\ top' = 0
  /\ UNCHANGED <<graph, stack>>

\* visit: the two tests at its head, then visited[u] = 1.
VisitEnter ==
  /\ pc = "tarjan"
  /\ stack # <<>>
  /\ TopFrame.i = 0
  /\ IF visited[TopFrame.u] = 2
     THEN /\ stack' = Pop(stack)
          /\ UNCHANGED <<pc, visited>>
     ELSE IF visited[TopFrame.u] = 1
     THEN /\ pc' = "raise"
          /\ UNCHANGED <<stack, visited>>
     ELSE /\ visited' = [visited EXCEPT ![TopFrame.u] = 1]
          /\ stack' = SetTop(stack, Frame(TopFrame.u, 1))
          /\ UNCHANGED pc
  /\ UNCHANGED <<graph, ret, order, top>>

\* visit: one iteration of the for loop, a call of visit(v).
VisitLoop ==
  /\ pc = "tarjan"
  /\ stack # <<>>
  /\ TopFrame.i >= 1
  /\ TopFrame.i <= Len(adj_list[TopFrame.u])
  /\ stack' = Append(SetTop(stack, Frame(TopFrame.u, TopFrame.i + 1)),
                     Frame(adj_list[TopFrame.u][TopFrame.i], 0))
  /\ UNCHANGED <<graph, pc, ret, visited, order, top>>

\* visit: visited[u] = 2; topo_order.append(u); return.
VisitReturn ==
  /\ pc = "tarjan"
  /\ stack # <<>>
  /\ TopFrame.i > Len(adj_list[TopFrame.u])
  /\ visited' = [visited EXCEPT ![TopFrame.u] = 2]
  /\ order' = Append(order, TopFrame.u)
  /\ stack' = Pop(stack)
  /\ UNCHANGED <<graph, pc, ret, top>>

\* The ValueError leaves one visit call.
Unwind ==
  /\ pc = "raise"
  /\ stack # <<>>
  /\ stack' = Pop(stack)
  /\ UNCHANGED <<graph, pc, ret, visited, order, top>>

TarjanCatch_resume_loop ==
  /\ pc = "raise"
  /\ stack = <<>>
  /\ pc' = "tarjan"
  /\ UNCHANGED <<graph, ret, visited, order, stack, top>>

\* except ValueError as e: print(e)
TarjanCatch ==
  /\ pc = "raise"
  /\ stack = <<>>
  /\ ret' = Result("tarjan", <<>>, "cycle", None)
  /\ pc' = "idle"
  /\ visited' = <<>>
  /\ order' = <<>>
  /\ top' = 0
  /\ UNCHANGED <<graph, stack>>

----------------------------------------------------------------------------
\* Specifications.  add_edge is called with every argument in Args where the
\* store itself is examined, and with node indices where a graph is built
\* for an algorithm to run on.

StoreNext ==
  \E u, v \in Args : AddEdge(u, v)

QueryNext ==
  \/ \E u, v \in Nodes : AddEdge(u, v)
  \/ \E u, v \in Args : EdgeExists(u, v)

TraverseNext ==
  \/ \E u, v \in Nodes : AddEdge(u, v)
  \/ \E start \in Args : Bfs(start)
  \/ \E start \in Args : DfsStart(start)
  \/ DfsEnter
  \/ DfsLoop
  \/ DfsReturn

TopoNext ==
  \/ \E u, v \in Nodes : AddEdge(u, v)
  \/ Kahn
  \/ TarjanStart
  \/ TarjanTop
  \/ TarjanFinish
  \/ VisitEnter
  \/ VisitLoop
  \/ VisitReturn
  \/ Unwind
  \/ TarjanCatch

RecursionNext ==
  \/ \E u, v \in Nodes : AddEdge(u, v)
  \/ \E start \in Nodes : DfsStart(start)
  \/ DfsEnter
  \/ DfsLoop
  \/ DfsReturn
  \/ TarjanStart
  \/ TarjanTop
  \/ TarjanFinish
  \/ VisitEnter
  \/ VisitLoop
  \/ VisitReturn
  \/ Unwind
  \/ TarjanCatch

Next == StoreNext \/ QueryNext \/ TraverseNext \/ TopoNext

Spec == Init /\ [][Next]_vars
StoreSpec == Init /\ [][StoreNext]_vars
QuerySpec == Init /\ [][QueryNext]_vars
TraverseSpec == Init /\ [][TraverseNext]_vars
TopoSpec == Init /\ [][TopoNext]_vars
RecursionSpec == Init /\ [][RecursionNext]_vars

----------------------------------------------------------------------------
\* Vocabulary of the properties.

InList(u, v) == \E i \in 1 .. Len(adj_list[u]) : adj_list[u][i] = v
InEdgeList(u, v) == \E i \in 1 .. Len(edge_list) : edge_list[i] = <<u, v>>
MatrixSet(u, v) == adj_matrix[u][v] = 1

RECURSIVE Closure(_)
\* The nodes of S and every node an adjacency-list path leads to from S.
Closure(S) ==
  LET T == S \cup {v \in Nodes : \E u \in S : InList(u, v)}
  IN IF T = S THEN S ELSE Closure(T)

ReachableFrom(start) == Closure({start})
OnCycle(u) == u \in Closure({v \in Nodes : InList(u, v)})
Acyclic == \A u \in Nodes : ~OnCycle(u)

Occurrences(s, x) == Cardinality({i \in 1 .. Len(s) : s[i] = x})
IsPermutation(s) ==
  Len(s) = nodes /\ \A n \in Nodes : Occurrences(s, n) = 1
Pos(s, x) == CHOOSE i \in 1 .. Len(s) : s[i] = x

Completed(op) == pc = "idle" /\ ret.op = op
ValidEdgeArgs(args) == ~OutOfRange(args[1], args[2]) /\ args[1] # args[2]

----------------------------------------------------------------------------
\* C1: in every state reached by add_edge calls (inserting, no-op or
\* failing), for all nodes u, v: the matrix cell [u][v] is set iff v is in
\* adj_list[u] iff (u, v) is in edge_list.
C1_ThreeWaySync ==
  \A u, v \in Nodes :
    /\ MatrixSet(u, v) <=> InList(u, v)
    /\ InList(u, v) <=> InEdgeList(u, v)

\* An undirected graph holding an edge, after a failing add_edge call.
C1_Witness ==
  /\ Completed("add_edge")
  /\ ret.kind = "ValueError"
  /\ ~directed
  /\ \E u, v \in Nodes : MatrixSet(u, v) /\ MatrixSet(v, u) /\ InEdgeList(v, u)
  /\ \E u, v \in Nodes : u # v /\ ~MatrixSet(u, v)

\* C2: after add_edge(u, v) with u, v in range and u # v, edge_exists(u, v)
\* is true, and an add_edge(u, v) right after it leaves the edge list, the
\* adjacency list and the matrix as they are.
C2_AfterAdd ==
  Completed("add_edge") /\ ValidEdgeArgs(ret.args)
    => ret.kind = "return" /\ edge_exists(ret.args[1], ret.args[2])

C2_SecondAdd ==
  Completed("add_edge") /\ ValidEdgeArgs(ret.args)
  /\ ret'.op = "add_edge" /\ ret'.args = ret.args
    => /\ Len(edge_list') = Len(edge_list)
       /\ UNCHANGED <<adj_list, adj_matrix, edge_list>>

C2_Idempotent == [](C2_AfterAdd) /\ [][C2_SecondAdd]_vars

\* The last call was add_edge(u, v) on a directed graph whose newest edge
\* is another one: the call found (u, v) present and added nothing.
C2_Witness ==
  /\ Completed("add_edge")
  /\ ValidEdgeArgs(ret.args)
  /\ directed
  /\ edge_exists(ret.args[1], ret.args[2])
  /\ Len(edge_list) >= 2
  /\ edge_list[Len(edge_list)] # ret.args

\* C3: add_edge(u, v) raises ValueError whenever u = v or an index is out
\* of range, directed or not; the failing call changes none of the three
\* structures; no state has matrix[u][u] set.
C3_Rejected ==
  /\ Completed("add_edge") /\ ~ValidEdgeArgs(ret.args)
       => ret.kind = "ValueError"
  /\ \A u \in Nodes : ~MatrixSet(u, u)

C3_FailingCallKeepsGraph ==
  pc = "idle" /\ ret'.op = "add_edge" /\ ret'.kind = "ValueError"
    => UNCHANGED <<adj_list, adj_matrix, edge_list>>

C3_SelfLoopAndRange == [](C3_Rejected) /\ [][C3_FailingCallKeepsGraph]_vars

\* add_edge(u, u) with u a node has just failed on a graph that has edges.
C3_Witness ==
  /\ Completed("add_edge")
  /\ ret.kind = "ValueError"
  /\ ret.args[1] = ret.args[2]
  /\ ret.args[1] \in Nodes
  /\ edge_list # <<>>

\* C4: in an undirected graph edge_exists(u, v) iff edge_exists(v, u), for
\* all u, v; a returning add_edge(u, v) makes edge_exists(v, u) true and
\* both (u, v) and (v, u) are in the edge list and the adjacency lists.
C4_UndirectedSymmetry ==
  ~directed =>
    /\ \A u, v \in Args : edge_exists(u, v) <=> edge_exists(v, u)
    /\ Completed("add_edge") /\ ret.kind = "return"
         => LET u == ret.args[1]
                v == ret.args[2]
            IN /\ edge_exists(v, u)
               /\ InEdgeList(u, v) /\ InEdgeList(v, u)
               /\ InList(u, v) /\ InList(v, u)

C4_Witness ==
  /\ ~directed
  /\ Completed("add_edge")
  /\ ret.kind = "return"
  /\ edge_exists(ret.args[2], ret.args[1])
  /\ Len(edge_list) >= 4

\* C8: edge_exists never fails; it returns false when u or v is outside
\* [0, nodes), the matrix cell otherwise, and it leaves the graph alone.
C8_Returns ==
  Completed("edge_exists") =>
    /\ ret.kind = "return"
    /\ ret.val = (~OutOfRange(ret.args[1], ret.args[2])
                    /\ MatrixSet(ret.args[1], ret.args[2]))

C8_KeepsGraph ==
  pc = "idle" /\ ret'.op = "edge_exists" => UNCHANGED graph

C8_LenientQuery == [](C8_Returns) /\ [][C8_KeepsGraph]_vars

\* edge_exists(-1, v) has returned false although the last row of the
\* matrix has its cell v set.
C8_Witness ==
  /\ Completed("edge_exists")
  /\ ret.args[1] = 0 - 1
  /\ ret.args[2] \in Nodes
  /\ MatrixSet(nodes - 1, ret.args[2])
  /\ ret.val = FALSE

----------------------------------------------------------------------------
\* C5: for every in-range start, bfs(start) and dfs(start) return a
\* sequence that begins with start, holds start exactly once, and holds no
\* node that adjacency-list edges do not lead to from start.
C5_TraversalOrder ==
  (Completed("bfs") \/ Completed("dfs")) /\ ret.args[1] \in Nodes
    => /\ ret.kind = "return"
       /\ Len(ret.val) >= 1
       /\ ret.val[1] = ret.args[1]
       /\ Occurrences(ret.val, ret.args[1]) = 1
       /\ \A i \in 1 .. Len(ret.val) : ret.val[i] \in ReachableFrom(ret.args[1])

\* bfs has returned from a start that lies on a cycle, with a node of the
\* graph out of its reach.
C5_Witness ==
  /\ Completed("bfs")
  /\ ret.kind = "return"
  /\ Len(ret.val) >= 2
  /\ OnCycle(ret.args[1])
  /\ \E n \in Nodes : n \notin ReachableFrom(ret.args[1])

\* C6: on a directed graph kahn_topological_sort reports a cycle iff
\* tarjan_topological_sort does.
C6_CycleAgreement ==
  Completed("tarjan") /\ directed
    => (ret.kind = "cycle" <=> kahn_outcome.kind = "cycle")

\* Both report a cycle on a graph that also has a node off every cycle.
C6_Witness ==
  /\ Completed("tarjan")
  /\ ret.kind = "cycle"
  /\ kahn_outcome.kind = "cycle"
  /\ \E n \in Nodes : ~OnCycle(n)

\* C7: on an acyclic directed graph both sorts produce an order that is a
\* permutation of 0 .. nodes-1 in which u comes before v for every (u, v)
\* of the edge list.
C7_TopologicalOrder ==
  (Completed("kahn") \/ Completed("tarjan")) /\ directed /\ Acyclic
    => /\ ret.kind = "order"
       /\ IsPermutation(ret.val)
       /\ \A i \in 1 .. Len(edge_list) :
            Pos(ret.val, edge_list[i][1]) < Pos(ret.val, edge_list[i][2])

\* The depth-first sort has ordered a graph whose edges force an order
\* other than 0, 1, 2, ...
C7_Witness ==
  /\ Completed("tarjan")
  /\ ret.kind = "order"
  /\ Acyclic
  /\ Len(edge_list) >= 2
  /\ ret.val[1] # 0

\* C9: in tarjan_topological_sort, once a visit meets a node marked 1 the
\* sort aborts: no mark changes and nothing is appended after that, no
\* further top-level node is started, and the outcome is the cycle report
\* without an order; meeting a node marked 1 is the only way into the
\* abort; marks only move 0 -> 1 -> 2.
C9_AbortIsFinal ==
  pc = "raise" =>
    /\ pc' \in {"raise", "idle"}
    /\ pc' = "raise" =>
         /\ UNCHANGED <<visited, order, top>>
         /\ Len(stack') < Len(stack)
    /\ pc' = "idle" => ret'.op = "tarjan" /\ ret'.kind = "cycle" /\ ret'.val = None

C9_SoleCycleSignal ==
  /\ pc = "tarjan" /\ pc' = "raise"
       => stack # <<>> /\ TopFrame.i = 0 /\ visited[TopFrame.u] = 1
  /\ pc = "tarjan" /\ stack # <<>> /\ TopFrame.i = 0 /\ visited[TopFrame.u] = 1
       => pc' = "raise"
  /\ pc = "tarjan" /\ pc' = "idle" => ret'.kind = "order"

C9_MarksMonotonic ==
  pc \in {"tarjan", "raise"} /\ pc' \in {"tarjan", "raise"}
    => \A u \in Nodes :
         visited'[u] = visited[u] \/ visited'[u] = visited[u] + 1

C9_CycleAborts ==
  [][C9_AbortIsFinal /\ C9_SoleCycleSignal /\ C9_MarksMonotonic]_vars

\* The ValueError is in flight, with visit calls still to leave, while a
\* node the top-level loop has not come to is still unvisited.
C9_Witness ==
  /\ pc = "raise"
  /\ \E u \in Nodes : u >= top /\ visited[u] = 0
  /\ Depth >= 2

\* C10, as claimed: the number of active dfs_util calls, and of active
\* visit calls, never exceeds nodes.
C10_DepthAtMostNodes ==
  pc \in {"dfs", "tarjan", "raise"} => Depth <= nodes

\* C10, as it holds: the number of active dfs_util calls never exceeds
\* nodes; the number of active visit calls never exceeds nodes + 1, and
\* never exceeds nodes on an acyclic graph.
C10_DepthBound ==
  /\ pc = "dfs" => Depth <= nodes
  /\ pc \in {"tarjan", "raise"} =>
       /\ Depth <= nodes + 1
       /\ Acyclic => Depth <= nodes

\* nodes + 1 visit calls are active.
C10_Witness ==
  /\ pc = "raise"
  /\ Depth = nodes + 1
  /\ nodes >= 2

====
